---- MODULE Spec2Model ----
(***************************************************************************)
(* Model of the QQT ".img" sprite decoder (src/QQ堂img文件解码.py).          *)
(*                                                                         *)
(* Spec      : QQTSprite.open on a byte buffer: sprite header, direction   *)
(*             and frame loops, per-frame image slicing, final size check. *)
(* SpecCodec : the three pixel codecs applied to (width, height, raw).     *)
(*                                                                         *)
(* Bytes are integers 0..255, buffers are sequences of bytes (1-based in   *)
(* TLA+, 0-based offsets in the code: byte at offset o is source[o + 1]).  *)
(* 32-bit fields are kept below 2^31 so that they fit TLC's integers.      *)
(***************************************************************************)
EXTENDS Integers, Sequences, FiniteSets, TLC

(***************************************************************************)
(* Bounds of the model                                                     *)
(***************************************************************************)
MaxFileFrames == 2    \* frame records written into an input file
MaxTotalFrames == 2   \* largest n_total_frames field of an input header
MaxDirections == 2    \* largest n_directions field of an input header
MaxWidth == 2         \* width of the non-empty images of an input file
MaxTail == 1          \* bytes appended to / removed from the end of a file

(***************************************************************************)
(* Program constants                                                       *)
(***************************************************************************)
\* ctypes.sizeof of the three structures: their fields are 4-byte integers
\* and one 8-byte character array, laid out without padding
QQT_IMAGE_METADATA_SIZE == 3 * 4
QQT_SPRITE_FRAME_METADATA_SIZE == 4 * 4
QQT_SPRITE_METADATA_SIZE == 8 + 8 * 4
MODE_EMPTY == 0
MODE_RGB565 == 3
MODE_RGB565_ALT == 285212672
MODE_RGB32 == 8
MODE_RGB24 == 16
VERSION_A == 65536
VERSION_B == 65537
FRAME_INFO_INSTANCE_SIZE == 24

\* b'QQF\x1aDIMG'
MAGIC_1 == <<81, 81, 70, 26, 68, 73, 77, 71>>

Byte == 0..255

(***************************************************************************)
(* Bit operations of Python on non-negative integers                       *)
(***************************************************************************)
RECURSIVE BitAnd(_, _)
BitAnd(a, b) ==
    IF a = 0 \/ b = 0 THEN 0
    ELSE (a % 2) * (b % 2) + 2 * BitAnd(a \div 2, b \div 2)

RECURSIVE BitOr(_, _)
BitOr(a, b) ==
    IF a = 0 THEN b
    ELSE IF b = 0 THEN a
    ELSE (IF a % 2 = 1 \/ b % 2 = 1 THEN 1 ELSE 0) + 2 * BitOr(a \div 2, b \div 2)

RECURSIVE Pow2(_)
Pow2(n) == IF n = 0 THEN 1 ELSE 2 * Pow2(n - 1)

ShiftRight(a, n) == a \div Pow2(n)

ShiftLeft(a, n) == a * Pow2(n)

Min(a, b) == IF a < b THEN a ELSE b

\* source[lo:hi] of Python, for 0 <= lo: clipped to the end of the buffer
Slice(s, lo, hi) == SubSeq(s, lo + 1, Min(hi, Len(s)))

(***************************************************************************)
(* ctypes field reads (little-endian) at a byte offset                     *)
(***************************************************************************)
\* ctypes.c_uint32
U32At(s, o) ==
    s[o + 1] + 256 * s[o + 2] + 65536 * s[o + 3] + 16777216 * s[o + 4]

\* ctypes.c_int32 (two's complement)
I32At(s, o) ==
    IF s[o + 4] < 128 THEN U32At(s, o)
    ELSE -((255 - s[o + 1]) + 256 * (255 - s[o + 2]) + 65536 * (255 - s[o + 3])
           + 16777216 * (255 - s[o + 4])) - 1

\* value of a ctypes.c_char array field: the bytes before the first NUL
RECURSIVE CharArrayValue(_)
CharArrayValue(bytes) ==
    IF bytes = <<>> \/ Head(bytes) = 0 THEN <<>>
    ELSE <<Head(bytes)>> \o CharArrayValue(Tail(bytes))

\* Structure.from_buffer_copy(source, offset) raises ValueError when the
\* buffer holds fewer than offset + sizeof bytes
BufferTooSmall(s, o, size) == o + size > Len(s)

(***************************************************************************)
(* Outcome of a call: a returned value or a raised exception.  An exception *)
(* is recorded as its Python type, the place that raised it and the value   *)
(* it is about.                                                             *)
(***************************************************************************)
Ok(v) == [ok |-> TRUE, value |-> v]

Raise(exc, site, v) == [ok |-> FALSE, error |-> [exc |-> exc, site |-> site, value |-> v]]

NoError == [exc |-> "", site |-> "", value |-> 0]

None == [none |-> TRUE]

(***************************************************************************)
(* Pixel codecs                                                            *)
(***************************************************************************)
\* mutant: the alpha byte scaled by its 5-bit maximum
Mut_decode_rgb565_alpha_channel(byte) == (byte * 255) \div 31

\* int(x * 255.0 / d) for 0 <= x: the float quotient is exact when d divides
\* x * 255 and otherwise lies at least 1/64 away from an integer, so the
\* truncation is the integer quotient.
decode_rgb565_alpha_channel(byte) == (byte * 255) \div 32

decode_rgb565_red_channel(higher_byte) ==
    (ShiftRight(BitAnd(higher_byte, 248), 3) * 255) \div 31

\* mutant: the low green bits taken with the mask 0b11000000
Mut_decode_rgb565_green_channel(higher_byte, lower_byte) ==
    (BitOr(ShiftLeft(BitAnd(higher_byte, 7), 3),
           ShiftRight(BitAnd(lower_byte, 192), 5)) * 255) \div 63

decode_rgb565_green_channel(higher_byte, lower_byte) ==
    (BitOr(ShiftLeft(BitAnd(higher_byte, 7), 3),
           ShiftRight(BitAnd(lower_byte, 224), 5)) * 255) \div 63

decode_rgb565_blue_channel(lower_byte) == (BitAnd(lower_byte, 31) * 255) \div 31

\* bytearray(n): n zero bytes
ByteArray(n) == [k \in 1..n |-> 0]

\* Iteration n of the nested loops (i = n \div width, j = n % width) on the
\* array built so far; an index past the end of the input raises IndexError,
\* a channel value above 255 stored into the bytearray raises ValueError.
RECURSIVE rgb565_loop(_, _, _, _, _)
rgb565_loop(width, height, original_image_data, n, standard_pixel_array) ==
    IF n = width * height THEN Ok(standard_pixel_array)
    ELSE
      LET i == n \div width
          j == n % width
          original_image_data_start_offset == (i * width + j) * 2
          standard_pixel_array_start_offset == (i * width + j) * 4
          original_image_data_alpha_channel_offset == width * height * 2 + i * width + j
      IN
      IF original_image_data_start_offset >= Len(original_image_data)
      THEN Raise("IndexError", "decode.index", original_image_data_start_offset)
      ELSE IF original_image_data_start_offset + 1 >= Len(original_image_data)
      THEN Raise("IndexError", "decode.index", original_image_data_start_offset + 1)
      ELSE IF original_image_data_alpha_channel_offset >= Len(original_image_data)
      THEN Raise("IndexError", "decode.index", original_image_data_alpha_channel_offset)
      ELSE
        LET lower_byte == original_image_data[original_image_data_start_offset + 1]
            higher_byte == original_image_data[original_image_data_start_offset + 2]
            alpha == decode_rgb565_alpha_channel(
                       original_image_data[original_image_data_alpha_channel_offset + 1])
        IN
        IF alpha > 255 THEN Raise("ValueError", "decode.byte_range", alpha)
        ELSE rgb565_loop(width, height, original_image_data, n + 1,
               [standard_pixel_array EXCEPT
                  ![standard_pixel_array_start_offset + 1] = decode_rgb565_red_channel(higher_byte),
                  ![standard_pixel_array_start_offset + 2] =
                      decode_rgb565_green_channel(higher_byte, lower_byte),
                  ![standard_pixel_array_start_offset + 3] = decode_rgb565_blue_channel(lower_byte),
                  ![standard_pixel_array_start_offset + 4] = alpha])

decode_rgb565_with_alpha_channel_at_the_end_data(width, height, original_image_data) ==
    rgb565_loop(width, height, original_image_data, 0, ByteArray(width * height * 4))

RECURSIVE rgb32_loop(_, _, _, _, _)
rgb32_loop(width, height, original_image_data, n, standard_pixel_array) ==
    IF n = width * height THEN Ok(standard_pixel_array)
    ELSE
      LET i == n \div width
          j == n % width
          original_image_data_start_offset == (i * width + j) * 4
          standard_pixel_array_start_offset == (i * width + j) * 4
      IN
      \* reads in the order red (+2), green (+1), blue (+0), alpha (+3)
      IF original_image_data_start_offset + 2 >= Len(original_image_data)
      THEN Raise("IndexError", "decode.index", original_image_data_start_offset + 2)
      ELSE IF original_image_data_start_offset + 3 >= Len(original_image_data)
      THEN Raise("IndexError", "decode.index", original_image_data_start_offset + 3)
      ELSE
        LET red == original_image_data[original_image_data_start_offset + 3]
            green == original_image_data[original_image_data_start_offset + 2]
            blue == original_image_data[original_image_data_start_offset + 1]
            alpha == original_image_data[original_image_data_start_offset + 4]
        IN rgb32_loop(width, height, original_image_data, n + 1,
             [standard_pixel_array EXCEPT
                ![standard_pixel_array_start_offset + 1] = red,
                ![standard_pixel_array_start_offset + 2] = green,
                ![standard_pixel_array_start_offset + 3] = blue,
                ![standard_pixel_array_start_offset + 4] = alpha])

decode_rgb32_data(width, height, original_image_data) ==
    rgb32_loop(width, height, original_image_data, 0, ByteArray(width * height * 4))

RECURSIVE rgb24_loop(_, _, _, _, _)
rgb24_loop(width, height, original_image_data, n, standard_pixel_array) ==
    IF n = width * height THEN Ok(standard_pixel_array)
    ELSE
      LET i == n \div width
          j == n % width
          original_image_data_start_offset == (i * width + j) * 3
          standard_pixel_array_start_offset == (i * width + j) * 3
      IN
      \* the first read is red, at the highest of the three offsets
      IF original_image_data_start_offset + 2 >= Len(original_image_data)
      THEN Raise("IndexError", "decode.index", original_image_data_start_offset + 2)
      ELSE
        LET red == original_image_data[original_image_data_start_offset + 3]
            green == original_image_data[original_image_data_start_offset + 2]
            blue == original_image_data[original_image_data_start_offset + 1]
        IN rgb24_loop(width, height, original_image_data, n + 1,
             [standard_pixel_array EXCEPT
                ![standard_pixel_array_start_offset + 1] = red,
                ![standard_pixel_array_start_offset + 2] = green,
                ![standard_pixel_array_start_offset + 3] = blue])

decode_rgb24_data(width, height, original_image_data) ==
    rgb24_loop(width, height, original_image_data, 0, ByteArray(width * height * 3))

(***************************************************************************)
(* Images                                                                  *)
(***************************************************************************)
QQTImageMetadataAt(source, offset) ==
    [width |-> U32At(source, offset),
     height |-> U32At(source, offset + 4),
     unknown |-> U32At(source, offset + 8)]

QQTEmptyImage == [kind |-> "Empty"]

image_width(image) == IF image.kind = "Empty" THEN 0 ELSE image.metadata.width

image_height(image) == IF image.kind = "Empty" THEN 0 ELSE image.metadata.height

\* mutant: an Empty image counted as holding an image header
Mut_image_instance_size(image) ==
    QQT_IMAGE_METADATA_SIZE
    + (IF image.kind = "Empty" THEN 0 ELSE Len(image.original_image_data))

image_instance_size(image) ==
    IF image.kind = "Empty" THEN 0
    ELSE QQT_IMAGE_METADATA_SIZE + Len(image.original_image_data)

image_mode(image) == IF image.kind \in {"Empty", "RGB24"} THEN "RGB" ELSE "RGBA"

standard_image_data(image) ==
    CASE image.kind = "Empty" -> Ok(<<>>)
      [] image.kind = "RGB565Alpha" ->
           decode_rgb565_with_alpha_channel_at_the_end_data(
               image_width(image), image_height(image), image.original_image_data)
      [] image.kind = "RGB32" ->
           decode_rgb32_data(image_width(image), image_height(image), image.original_image_data)
      [] image.kind = "RGB24" ->
           decode_rgb24_data(image_width(image), image_height(image), image.original_image_data)

QQTRGB565WithAlphaChannelAtTheEndImage_from_buffer(source, offset) ==
    IF BufferTooSmall(source, offset, QQT_IMAGE_METADATA_SIZE)
    THEN Raise("ValueError", "image.from_buffer_copy", Len(source))
    ELSE
      LET metadata == QQTImageMetadataAt(source, offset)
          off == offset + QQT_IMAGE_METADATA_SIZE
          data_size == metadata.width * metadata.height * 3
          original_image_data == Slice(source, off, off + data_size)
      IN IF Len(original_image_data) # data_size
         THEN Raise("AssertionError", "image.data_size", Len(original_image_data))
         ELSE Ok([kind |-> "RGB565Alpha", metadata |-> metadata,
                  original_image_data |-> original_image_data])

\* mutant: the payload of a 32-bit image sized as 3 bytes per pixel
Mut_QQTRGB32Image_from_buffer(source, offset) ==
    IF BufferTooSmall(source, offset, QQT_IMAGE_METADATA_SIZE)
    THEN Raise("ValueError", "image.from_buffer_copy", Len(source))
    ELSE
      LET metadata == QQTImageMetadataAt(source, offset)
          off == offset + QQT_IMAGE_METADATA_SIZE
          data_size == metadata.width * metadata.height * 3
          original_image_data == Slice(source, off, off + data_size)
      IN IF Len(original_image_data) # data_size
         THEN Raise("AssertionError", "image.data_size", Len(original_image_data))
         ELSE Ok([kind |-> "RGB32", metadata |-> metadata,
                  original_image_data |-> original_image_data])

QQTRGB32Image_from_buffer(source, offset) ==
    IF BufferTooSmall(source, offset, QQT_IMAGE_METADATA_SIZE)
    THEN Raise("ValueError", "image.from_buffer_copy", Len(source))
    ELSE
      LET metadata == QQTImageMetadataAt(source, offset)
          off == offset + QQT_IMAGE_METADATA_SIZE
          data_size == metadata.width * metadata.height * 4
          original_image_data == Slice(source, off, off + data_size)
      IN IF Len(original_image_data) # data_size
         THEN Raise("AssertionError", "image.data_size", Len(original_image_data))
         ELSE Ok([kind |-> "RGB32", metadata |-> metadata,
                  original_image_data |-> original_image_data])

\* mutant: the slice kept without the assertion on its length
Mut_QQTRGB24Image_from_buffer(source, offset) ==
    IF BufferTooSmall(source, offset, QQT_IMAGE_METADATA_SIZE)
    THEN Raise("ValueError", "image.from_buffer_copy", Len(source))
    ELSE
      LET metadata == QQTImageMetadataAt(source, offset)
          off == offset + QQT_IMAGE_METADATA_SIZE
          data_size == metadata.width * metadata.height * 3
          original_image_data == Slice(source, off, off + data_size)
      IN Ok([kind |-> "RGB24", metadata |-> metadata,
             original_image_data |-> original_image_data])

QQTRGB24Image_from_buffer(source, offset) ==
    IF BufferTooSmall(source, offset, QQT_IMAGE_METADATA_SIZE)
    THEN Raise("ValueError", "image.from_buffer_copy", Len(source))
    ELSE
      LET metadata == QQTImageMetadataAt(source, offset)
          off == offset + QQT_IMAGE_METADATA_SIZE
          data_size == metadata.width * metadata.height * 3
          original_image_data == Slice(source, off, off + data_size)
      IN IF Len(original_image_data) # data_size
         THEN Raise("AssertionError", "image.data_size", Len(original_image_data))
         ELSE Ok([kind |-> "RGB24", metadata |-> metadata,
                  original_image_data |-> original_image_data])

(***************************************************************************)
(* Frames                                                                  *)
(***************************************************************************)
QQTSpriteFrameMetadataAt(source, offset) ==
    [magic |-> U32At(source, offset),
     frame_info_cx |-> I32At(source, offset + 4),
     frame_info_cy |-> I32At(source, offset + 8),
     mode |-> U32At(source, offset + 12)]

QQTSpriteFrame(metadata, image) == [metadata |-> metadata, image |-> image]

frame_instance_size(frame) ==
    QQT_SPRITE_FRAME_METADATA_SIZE + image_instance_size(frame.image)

\* the frame made of frame_metadata and the outcome of an image's from_buffer
FrameOf(frame_metadata, image_result) ==
    IF image_result.ok THEN Ok(QQTSpriteFrame(frame_metadata, image_result.value))
    ELSE image_result

\* mutant: a mode that is not known read as an empty frame
Mut_QQTSpriteFrame_from_buffer(source, offset) ==
    IF BufferTooSmall(source, offset, QQT_SPRITE_FRAME_METADATA_SIZE)
    THEN Raise("ValueError", "frame.from_buffer_copy", Len(source))
    ELSE
      LET frame_metadata == QQTSpriteFrameMetadataAt(source, offset)
          off == offset + QQT_SPRITE_FRAME_METADATA_SIZE
      IN
      IF frame_metadata.magic # 0
      THEN Raise("AssertionError", "frame.magic", frame_metadata.magic)
      ELSE IF frame_metadata.mode = MODE_RGB565 \/ frame_metadata.mode = MODE_RGB565_ALT
      THEN FrameOf(frame_metadata,
                   QQTRGB565WithAlphaChannelAtTheEndImage_from_buffer(source, off))
      ELSE IF frame_metadata.mode = MODE_RGB32
      THEN FrameOf(frame_metadata, QQTRGB32Image_from_buffer(source, off))
      ELSE IF frame_metadata.mode = MODE_RGB24
      THEN FrameOf(frame_metadata, QQTRGB24Image_from_buffer(source, off))
      ELSE Ok(QQTSpriteFrame(frame_metadata, QQTEmptyImage))

QQTSpriteFrame_from_buffer(source, offset) ==
    IF BufferTooSmall(source, offset, QQT_SPRITE_FRAME_METADATA_SIZE)
    THEN Raise("ValueError", "frame.from_buffer_copy", Len(source))
    ELSE
      LET frame_metadata == QQTSpriteFrameMetadataAt(source, offset)
          off == offset + QQT_SPRITE_FRAME_METADATA_SIZE
      IN
      IF frame_metadata.magic # 0
      THEN Raise("AssertionError", "frame.magic", frame_metadata.magic)
      ELSE IF frame_metadata.mode = MODE_EMPTY
      THEN Ok(QQTSpriteFrame(frame_metadata, QQTEmptyImage))
      ELSE IF frame_metadata.mode = MODE_RGB565 \/ frame_metadata.mode = MODE_RGB565_ALT
      THEN FrameOf(frame_metadata,
                   QQTRGB565WithAlphaChannelAtTheEndImage_from_buffer(source, off))
      ELSE IF frame_metadata.mode = MODE_RGB32
      THEN FrameOf(frame_metadata, QQTRGB32Image_from_buffer(source, off))
      ELSE IF frame_metadata.mode = MODE_RGB24
      THEN FrameOf(frame_metadata, QQTRGB24Image_from_buffer(source, off))
      ELSE Raise("AssertionError", "frame.mode", frame_metadata.mode)

(***************************************************************************)
(* Sprites                                                                 *)
(***************************************************************************)
QQSpriteMetadataAt(source, offset) ==
    [magic_1 |-> CharArrayValue(SubSeq(source, offset + 1, offset + 8)),
     version_id |-> U32At(source, offset + 8),
     frame_info_instance_size |-> U32At(source, offset + 12),
     n_total_frames |-> U32At(source, offset + 16),
     n_directions |-> U32At(source, offset + 20),
     unknown_1 |-> U32At(source, offset + 24),
     unknown_2 |-> U32At(source, offset + 28),
     width |-> U32At(source, offset + 32),
     height |-> U32At(source, offset + 36)]

\* QQSpriteMetadata.n_frames_per_direction
n_frames_per_direction(m) ==
    IF m.n_directions = 0
    THEN Raise("ZeroDivisionError", "n_frames_per_direction", 0)
    ELSE LET tmp == m.n_total_frames \div m.n_directions
         IN IF m.n_total_frames # tmp * m.n_directions
            THEN Raise("AssertionError", "n_frames_per_direction", m.n_total_frames)
            ELSE Ok(tmp)

\* mutant: the header accepted without the assertion on version_id
Mut_QQSpriteMetadata_checked(source, offset) ==
    IF BufferTooSmall(source, offset, QQT_SPRITE_METADATA_SIZE)
    THEN Raise("ValueError", "sprite.from_buffer_copy", Len(source))
    ELSE
      LET m == QQSpriteMetadataAt(source, offset)
      IN IF m.magic_1 # MAGIC_1
         THEN Raise("AssertionError", "sprite.magic_1", 0)
         ELSE IF m.frame_info_instance_size # FRAME_INFO_INSTANCE_SIZE
         THEN Raise("AssertionError", "sprite.frame_info_instance_size",
                    m.frame_info_instance_size)
         ELSE Ok(m)

\* the header read and the three assertions at the start of QQTSprite.from_buffer
QQSpriteMetadata_checked(source, offset) ==
    IF BufferTooSmall(source, offset, QQT_SPRITE_METADATA_SIZE)
    THEN Raise("ValueError", "sprite.from_buffer_copy", Len(source))
    ELSE
      LET m == QQSpriteMetadataAt(source, offset)
      IN IF m.magic_1 # MAGIC_1
         THEN Raise("AssertionError", "sprite.magic_1", 0)
         ELSE IF ~(m.version_id = VERSION_A \/ m.version_id = VERSION_B)
         THEN Raise("AssertionError", "sprite.version_id", m.version_id)
         ELSE IF m.frame_info_instance_size # FRAME_INFO_INSTANCE_SIZE
         THEN Raise("AssertionError", "sprite.frame_info_instance_size",
                    m.frame_info_instance_size)
         ELSE Ok(m)

RECURSIVE SumSizes(_)
SumSizes(fs) == IF fs = <<>> THEN 0 ELSE frame_instance_size(Head(fs)) + SumSizes(Tail(fs))

RECURSIVE Flatten(_)
Flatten(lists) == IF lists = <<>> THEN <<>> ELSE Head(lists) \o Flatten(Tail(lists))

\* QQTSprite.instance_size
sprite_instance_size(s) == QQT_SPRITE_METADATA_SIZE + SumSizes(Flatten(s.frames))

(***************************************************************************)
(* Input files: a sprite header, some frame records, and a tail that is    *)
(* either cut short or extended.                                           *)
(***************************************************************************)
U32LE(n) == <<n % 256, (n \div 256) % 256, (n \div 65536) % 256, (n \div 16777216) % 256>>

I32LE(n) ==
    IF n >= 0 THEN U32LE(n)
    ELSE LET c == U32LE(-n - 1) IN <<255 - c[1], 255 - c[2], 255 - c[3], 255 - c[4]>>

PayloadByte(k) == (37 * k + 5) % 33

BytesPerPixel(mode) ==
    IF mode = MODE_RGB32 THEN 4
    ELSE IF mode \in {MODE_RGB565, MODE_RGB565_ALT, MODE_RGB24} THEN 3
    ELSE 0

UnknownModeInput == 99

ImageModes == {MODE_RGB565, MODE_RGB565_ALT, MODE_RGB32, MODE_RGB24}

\* frame records of the input files: empty frames with zero and with
\* negative cx, a frame of an unknown mode with a good and with a bad magic,
\* and in each image mode an image of MaxWidth x 1 pixels and one of no pixels
FrameInputs ==
    {[magic |-> 0, cx |-> c[1], cy |-> c[2], mode |-> MODE_EMPTY, width |-> 0, height |-> 0] :
        c \in {<<0, 0>>, <<-1, 5>>}}
    \cup
    {[magic |-> m, cx |-> 0, cy |-> 0, mode |-> UnknownModeInput, width |-> 0, height |-> 0] :
        m \in {0, 1}}
    \cup
    {[magic |-> 0, cx |-> 3, cy |-> -2, mode |-> md, width |-> w, height |-> 1] :
        md \in ImageModes, w \in {0, MaxWidth}}

FrameBytes(fr) ==
    U32LE(fr.magic) \o I32LE(fr.cx) \o I32LE(fr.cy) \o U32LE(fr.mode)
    \o (IF fr.mode \in ImageModes
        THEN U32LE(fr.width) \o U32LE(fr.height) \o U32LE(0)
             \o [k \in 1..(fr.width * fr.height * BytesPerPixel(fr.mode)) |-> PayloadByte(k)]
        ELSE <<>>)

RECURSIVE FramesBytes(_)
FramesBytes(fl) == IF fl = <<>> THEN <<>> ELSE FrameBytes(Head(fl)) \o FramesBytes(Tail(fl))

FrameLists == UNION {[1..n -> FrameInputs] : n \in 0..MaxFileFrames}

BadMagicInput == <<81, 81, 70, 0, 68, 73, 77, 71>>

\* sprite headers of the input files: the valid ones with every frame and
\* direction count, and one header for each field that can be wrong
HeaderInputs ==
    {[magic_1 |-> MAGIC_1, version_id |-> v, frame_info_instance_size |-> FRAME_INFO_INSTANCE_SIZE,
      n_total_frames |-> t, n_directions |-> d] :
        v \in {VERSION_A, VERSION_B}, t \in 0..MaxTotalFrames, d \in 0..MaxDirections}
    \cup
    {[magic_1 |-> b[1], version_id |-> b[2], frame_info_instance_size |-> b[3],
      n_total_frames |-> 1, n_directions |-> 1] :
        b \in {<<BadMagicInput, VERSION_A, FRAME_INFO_INSTANCE_SIZE>>,
               <<MAGIC_1, VERSION_B + 1, FRAME_INFO_INSTANCE_SIZE>>,
               <<MAGIC_1, VERSION_A, QQT_SPRITE_FRAME_METADATA_SIZE>>}}

HeaderBytes(h) ==
    h.magic_1 \o U32LE(h.version_id) \o U32LE(h.frame_info_instance_size)
    \o U32LE(h.n_total_frames) \o U32LE(h.n_directions)
    \o U32LE(0) \o U32LE(0) \o U32LE(7) \o U32LE(9)

\* t < 0: the last -t bytes removed; t > 0: t bytes appended
WithTail(bytes, t) ==
    IF t < 0 THEN SubSeq(bytes, 1, Len(bytes) + t)
    ELSE bytes \o [k \in 1..t |-> 0]

\* the file made of header h, the frame records fl and the tail change t
InputFile(h, fl, t) == WithTail(HeaderBytes(h) \o FramesBytes(fl), t)

(***************************************************************************)
(* State                                                                   *)
(***************************************************************************)
VARIABLES
    source,               \* the bytes of the file handed to QQTSprite.open
    pc,                   \* "open", "direction", "frame", "check", "done", "failed"
    offset,               \* from_buffer's offset
    metadata,             \* from_buffer's sprite metadata
    direction,            \* outer loop index
    frame,                \* inner loop index
    frames,               \* from_buffer's frames
    frames_per_direction, \* from_buffer's list of the direction being read
    sprite,               \* what from_buffer returned to open
    returned,             \* what open returned
    error,                \* the exception that ended the call
    truncated,            \* the file is a strict prefix of one that open accepted
    c_codec, c_width, c_height, c_raw, c_out   \* a direct call of a pixel codec

parser_vars == <<source, pc, offset, metadata, direction, frame, frames,
                 frames_per_direction, sprite, returned, error, truncated>>

codec_vars == <<c_codec, c_width, c_height, c_raw, c_out>>

vars == <<parser_vars, codec_vars>>

ParserStart(bytes, is_truncated) ==
    /\ source = bytes
    /\ pc = "open"
    /\ offset = 0
    /\ metadata = None
    /\ direction = 0
    /\ frame = 0
    /\ frames = <<>>
    /\ frames_per_direction = <<>>
    /\ sprite = None
    /\ returned = None
    /\ error = NoError
    /\ truncated = is_truncated

CodecIdle ==
    /\ c_codec = "none"
    /\ c_width = 0
    /\ c_height = 0
    /\ c_raw = <<>>
    /\ c_out = None

Init ==
    /\ \E h \in HeaderInputs, fl \in FrameLists, t \in (-MaxTail)..MaxTail :
          ParserStart(InputFile(h, fl, t), FALSE)
    /\ CodecIdle

Fail(e) ==
    /\ pc' = "failed"
    /\ error' = e

\* QQTSprite.from_buffer up to the frame loops
FromBufferHeader ==
    /\ pc = "open"
    /\ LET r == QQSpriteMetadata_checked(source, 0)
       IN IF r.ok
          THEN /\ metadata' = r.value
               /\ offset' = QQT_SPRITE_METADATA_SIZE
               /\ pc' = "direction"
               /\ error' = error
          ELSE /\ Fail(r.error)
               /\ UNCHANGED <<metadata, offset>>
    /\ UNCHANGED <<source, direction, frame, frames, frames_per_direction, sprite,
                   returned, truncated, codec_vars>>

\* head of "for direction in range(metadata.n_directions)": either the loop
\* is over and from_buffer returns the sprite, or a direction starts, which
\* evaluates metadata.n_frames_per_direction for the inner range
NextDirection ==
    /\ pc = "direction"
    /\ IF direction < metadata.n_directions
       THEN LET r == n_frames_per_direction(metadata)
            IN IF ~r.ok
               THEN /\ Fail(r.error)
                    /\ UNCHANGED <<direction, frame, frames, frames_per_direction, sprite>>
               ELSE IF r.value = 0
               THEN /\ frames' = Append(frames, <<>>)
                    /\ frames_per_direction' = <<>>
                    /\ frame' = 0
                    /\ direction' = direction + 1
                    /\ UNCHANGED <<pc, error, sprite>>
               ELSE /\ frames_per_direction' = <<>>
                    /\ frame' = 0
                    /\ pc' = "frame"
                    /\ UNCHANGED <<direction, frames, error, sprite>>
       ELSE /\ sprite' = [metadata |-> metadata, frames |-> frames]
            /\ pc' = "check"
            /\ UNCHANGED <<direction, frame, frames, frames_per_direction, error>>
    /\ UNCHANGED <<source, offset, metadata, returned, truncated, codec_vars>>

\* one iteration of "for frame in range(metadata.n_frames_per_direction)"
ReadFrame ==
    /\ pc = "frame"
    /\ LET r == QQTSpriteFrame_from_buffer(source, offset)
           n == n_frames_per_direction(metadata).value
       IN IF ~r.ok
          THEN /\ Fail(r.error)
               /\ UNCHANGED <<offset, direction, frame, frames, frames_per_direction>>
          ELSE /\ offset' = offset + frame_instance_size(r.value)
               /\ frames_per_direction' = Append(frames_per_direction, r.value)
               /\ frame' = frame + 1
               /\ error' = error
               /\ IF frame + 1 = n
                  THEN /\ frames' = Append(frames, frames_per_direction')
                       /\ direction' = direction + 1
                       /\ pc' = "direction"
                  ELSE UNCHANGED <<frames, direction, pc>>
    /\ UNCHANGED <<source, metadata, sprite, returned, truncated, codec_vars>>

\* mutant: the size check passing a file longer than the sprite
Mut_SizeCheck ==
    /\ pc = "check"
    /\ LET file_length == Len(source)
       IN IF file_length >= sprite_instance_size(sprite)
          THEN /\ returned' = sprite
               /\ pc' = "done"
               /\ error' = error
          ELSE /\ Fail([exc |-> "AssertionError", site |-> "open.file_length",
                        value |-> file_length])
               /\ returned' = returned
    /\ UNCHANGED <<source, offset, metadata, direction, frame, frames,
                   frames_per_direction, sprite, truncated, codec_vars>>

\* QQTSprite.open after from_buffer returned
SizeCheck ==
    /\ pc = "check"
    /\ LET file_length == Len(source)
       IN IF file_length = sprite_instance_size(sprite)
          THEN /\ returned' = sprite
               /\ pc' = "done"
               /\ error' = error
          ELSE /\ Fail([exc |-> "AssertionError", site |-> "open.file_length",
                        value |-> file_length])
               /\ returned' = returned
    /\ UNCHANGED <<source, offset, metadata, direction, frame, frames,
                   frames_per_direction, sprite, truncated, codec_vars>>

\* the next file of the batch is the accepted file cut to a strict prefix
NextFileTruncated ==
    /\ pc = "done"
    /\ ~truncated
    /\ \E n \in 0..(Len(source) - 1) :
          /\ source' = SubSeq(source, 1, n)
          /\ pc' = "open"
          /\ offset' = 0
          /\ metadata' = None
          /\ direction' = 0
          /\ frame' = 0
          /\ frames' = <<>>
          /\ frames_per_direction' = <<>>
          /\ sprite' = None
          /\ returned' = None
          /\ error' = NoError
          /\ truncated' = TRUE
    /\ UNCHANGED codec_vars

Next ==
    \/ FromBufferHeader
    \/ NextDirection
    \/ ReadFrame
    \/ SizeCheck
    \/ NextFileTruncated

Spec == Init /\ [][Next]_vars

(***************************************************************************)
(* Direct calls of the pixel codecs                                        *)
(***************************************************************************)
MaxCodecWidth == 2     \* largest width of a direct codec call
MaxCodecHeight == 1    \* largest height of a direct codec call
MaxRaw == 7            \* longest raw input of a direct codec call
MaxAlphaInput == 33    \* largest alpha-plane byte of a one-pixel call

CodecByteInputs == {10, 31, 248}

RawInputs == UNION {[1..n -> CodecByteInputs] : n \in 0..MaxRaw}

\* calls of any codec with any size and any raw length
SizedCalls ==
    {[codec |-> c, width |-> w, height |-> h, raw |-> r] :
        c \in {"rgb565", "rgb32", "rgb24"}, w \in 0..MaxCodecWidth,
        h \in 0..MaxCodecHeight, r \in RawInputs}

\* calls of the RGB565 codec on one pixel: every colour word, and every
\* alpha byte up to MaxAlphaInput
PixelCalls ==
    {[codec |-> "rgb565", width |-> 1, height |-> 1, raw |-> <<lb, hb, a>>] :
        lb \in Byte, hb \in Byte, a \in {0, 31}}
    \cup
    {[codec |-> "rgb565", width |-> 1, height |-> 1, raw |-> <<lb, hb, a>>] :
        lb \in {0, 255}, hb \in {0, 248}, a \in 0..MaxAlphaInput}

ParserIdle ==
    /\ source = <<>>
    /\ pc = "idle"
    /\ offset = 0
    /\ metadata = None
    /\ direction = 0
    /\ frame = 0
    /\ frames = <<>>
    /\ frames_per_direction = <<>>
    /\ sprite = None
    /\ returned = None
    /\ error = NoError
    /\ truncated = FALSE

InitCodec ==
    /\ ParserIdle
    /\ \E call \in SizedCalls \cup PixelCalls :
          /\ c_codec = call.codec
          /\ c_width = call.width
          /\ c_height = call.height
          /\ c_raw = call.raw
    /\ c_out = None

DecodeRGB565 ==
    /\ c_codec = "rgb565"
    /\ c_out = None
    /\ c_out' = decode_rgb565_with_alpha_channel_at_the_end_data(c_width, c_height, c_raw)
    /\ UNCHANGED <<parser_vars, c_codec, c_width, c_height, c_raw>>

DecodeRGB32 ==
    /\ c_codec = "rgb32"
    /\ c_out = None
    /\ c_out' = decode_rgb32_data(c_width, c_height, c_raw)
    /\ UNCHANGED <<parser_vars, c_codec, c_width, c_height, c_raw>>

DecodeRGB24 ==
    /\ c_codec = "rgb24"
    /\ c_out = None
    /\ c_out' = decode_rgb24_data(c_width, c_height, c_raw)
    /\ UNCHANGED <<parser_vars, c_codec, c_width, c_height, c_raw>>

NextCodec ==
    \/ DecodeRGB565
    \/ DecodeRGB32
    \/ DecodeRGB24

SpecCodec == InitCodec /\ [][NextCodec]_vars

(***************************************************************************)
(* Claims about the codecs (checked under SpecCodec)                       *)
(***************************************************************************)
\* the raw length a codec needs for width x height pixels
RequiredLength(codec, width, height) ==
    IF codec = "rgb32" THEN width * height * 4 ELSE width * height * 3

Decoded == c_out # None

\* C7 (as claimed): every codec call whose raw length differs from the
\* required length, shorter or longer, fails.
C7_Claim ==
    (Decoded /\ Len(c_raw) # RequiredLength(c_codec, c_width, c_height)) => ~c_out.ok

OnePixelMaxRed ==
    /\ c_codec = "rgb565"
    /\ c_width = 1
    /\ c_height = 1
    /\ c_raw = <<0, 248, 31>>
    /\ Decoded

\* C8 (as claimed): the 1x1 RGB565Alpha image with colour bytes [0x00, 0xF8]
\* and alpha byte 31 decodes to (255, 0, 0, 255).
C8_Claim == OnePixelMaxRed => c_out = Ok(<<255, 0, 0, 255>>)

\* C8 (amended): that image decodes to (255, 0, 0, 247); alpha 31 scales to
\* int(31 * 255 / 32) = 247.
C8_Amended == OnePixelMaxRed => c_out = Ok(<<255, 0, 0, 247>>)

\* that image was decoded
C8_Witness == OnePixelMaxRed /\ c_out.ok

\* x * 255 / d rounded to the nearest integer
RoundScale(x, d) == (2 * x * 255 + d) \div (2 * d)

\* x * 255 / d truncated
TruncScale(x, d) == (x * 255) \div d

\* the colour word and the alpha byte of pixel k of the raw input
ColourWord(k) == c_raw[2 * k + 1] + 256 * c_raw[2 * k + 2]

AlphaByte(k) == c_raw[c_width * c_height * 2 + k + 1]

Pixels == 0..(c_width * c_height - 1)

WellFormed565 ==
    /\ Len(c_raw) >= c_width * c_height * 3
    /\ \A k \in Pixels : AlphaByte(k) \in 0..31

\* C9 (as claimed): every pixel k of an RGB565Alpha image with alpha bytes in
\* 0..31 gets R, G, B, A = the 5/6/5-bit fields of its colour word and its
\* alpha byte scaled by 255/31, 255/63, 255/31, 255/32 and ROUNDED to the
\* nearest integer, at output bytes 4k..4k+3.
C9_Claim ==
    (c_codec = "rgb565" /\ Decoded /\ WellFormed565) =>
        /\ c_out.ok
        /\ Len(c_out.value) = 4 * c_width * c_height
        /\ \A k \in Pixels :
              LET c == ColourWord(k)
              IN /\ c_out.value[4 * k + 1] = RoundScale(c \div 2048, 31)
                 /\ c_out.value[4 * k + 2] = RoundScale((c \div 32) % 64, 63)
                 /\ c_out.value[4 * k + 3] = RoundScale(c % 32, 31)
                 /\ c_out.value[4 * k + 4] = RoundScale(AlphaByte(k), 32)

\* C9 (amended): the same with every scaled value TRUNCATED to an integer
\* (int(x * 255 / d)) instead of rounded.
C9_Amended ==
    (c_codec = "rgb565" /\ Decoded /\ WellFormed565) =>
        /\ c_out.ok
        /\ Len(c_out.value) = 4 * c_width * c_height
        /\ \A k \in Pixels :
              LET c == ColourWord(k)
              IN /\ c_out.value[4 * k + 1] = TruncScale(c \div 2048, 31)
                 /\ c_out.value[4 * k + 2] = TruncScale((c \div 32) % 64, 63)
                 /\ c_out.value[4 * k + 3] = TruncScale(c % 32, 31)
                 /\ c_out.value[4 * k + 4] = TruncScale(AlphaByte(k), 32)

\* a decoded two-pixel image whose second pixel has a non-zero colour word
\* and a non-zero alpha byte
C9_Witness ==
    /\ c_codec = "rgb565"
    /\ Decoded
    /\ WellFormed565
    /\ c_width * c_height = 2
    /\ ColourWord(1) > 2048
    /\ AlphaByte(1) = 31
    /\ c_out.ok

(***************************************************************************)
(* Claims about the parser (checked under Spec)                            *)
(***************************************************************************)
Last(s) == s[Len(s)]

KnownModes == {MODE_EMPTY, MODE_RGB565, MODE_RGB32, MODE_RGB24, MODE_RGB565_ALT}

\* exceptions of a read past the end of the buffer (TruncatedInput)
TruncationSites ==
    {"sprite.from_buffer_copy", "frame.from_buffer_copy", "image.from_buffer_copy",
     "image.data_size"}

\* the failed assertions on the sprite header's fields (MalformedHeader)
MalformedSpriteSites ==
    {"sprite.magic_1", "sprite.version_id", "sprite.frame_info_instance_size"}

\* exceptions raised while a frame is read
FrameSites ==
    {"frame.from_buffer_copy", "frame.magic", "frame.mode", "image.from_buffer_copy",
     "image.data_size"}

\* bytes a decoded frame takes in the file, counted from its fields: its
\* header, and for a mode other than 0 the image header and the payload
FrameBytesCounted(f) ==
    16 + (IF f.metadata.mode # 0 THEN 12 + Len(f.image.original_image_data) ELSE 0)

RECURSIVE BytesCounted(_)
BytesCounted(fs) ==
    IF fs = <<>> THEN 0 ELSE FrameBytesCounted(Head(fs)) + BytesCounted(Tail(fs))

\* from_buffer returned and open has finished, one way or the other
OpenFinishedAfterParse == sprite # None /\ pc \in {"done", "failed"}

SizeAccounting(header_size) ==
    /\ pc = "done" =>
          /\ returned = sprite
          /\ returned # None
          /\ Len(source) = header_size + BytesCounted(Flatten(returned.frames))
    /\ (OpenFinishedAfterParse /\ offset < Len(source)) =>
          /\ pc = "failed"
          /\ error.exc = "AssertionError"
          /\ error.site = "open.file_length"
          /\ returned = None

\* C1 (as claimed): open returns a Sprite only if 36 + the sum over the frames
\* of (16 + 12 if mode # 0 + payload length) is the length of the input, and
\* an input with bytes left after the last frame is rejected by the size check.
C1_Claim == SizeAccounting(36)

\* C1 (amended): the same with the sprite header counted as 40 bytes.
C1_Amended == SizeAccounting(40)

\* an accepted file with an empty frame and an image frame
C1_Witness ==
    /\ pc = "done"
    /\ \E a, b \in 1..Len(Flatten(returned.frames)) :
          /\ Flatten(returned.frames)[a].metadata.mode = MODE_EMPTY
          /\ Flatten(returned.frames)[b].metadata.mode = MODE_RGB32
          /\ Len(Flatten(returned.frames)[b].image.original_image_data) > 0

\* C2: a strict prefix of a file that open accepted is never accepted; it
\* fails with a read past the end of the buffer or with the size check.
C2_Theorem ==
    truncated =>
        /\ pc # "done"
        /\ returned = None
        /\ pc = "failed" => error.site \in TruncationSites \cup {"open.file_length"}

\* a prefix that ends inside a pixel payload was rejected
C2_Witness ==
    /\ truncated
    /\ pc = "failed"
    /\ error.site = "image.data_size"
    /\ frames # <<>>

\* the parse is about to read a frame header that the buffer holds in full
AtFrameHeader == pc = "frame" /\ ~BufferTooSmall(source, offset, 16)

HeaderMagic == U32At(source, offset)

HeaderMode == U32At(source, offset + 12)

AbortsWithUnknownMode ==
    /\ pc' = "failed"
    /\ error'.exc = "AssertionError"
    /\ error'.site = "frame.mode"
    /\ error'.value = HeaderMode
    /\ sprite' = None
    /\ returned' = None

\* C3 (as claimed): a frame header with a mode outside the known ones makes
\* from_buffer abort with the unknown-mode error carrying the mode, and no
\* Sprite is returned.
C3_Claim ==
    [][(AtFrameHeader /\ HeaderMode \notin KnownModes) => AbortsWithUnknownMode]_vars

\* C3 (amended): that holds when the frame header's magic is 0; with another
\* magic the parse aborts on the magic assertion instead.  Either way no
\* Sprite is returned.
C3_Amended ==
    [][(AtFrameHeader /\ HeaderMode \notin KnownModes) =>
          IF HeaderMagic = 0 THEN AbortsWithUnknownMode
          ELSE /\ pc' = "failed"
               /\ error'.site = "frame.magic"
               /\ sprite' = None
               /\ returned' = None]_vars

\* the parse aborted on mode 99 after it had decoded a frame
C3_Witness ==
    /\ pc = "failed"
    /\ error.site = "frame.mode"
    /\ error.value = UnknownModeInput
    /\ Len(Flatten(frames) \o frames_per_direction) >= 1
    /\ sprite = None
    /\ returned = None

\* C4 (as claimed): every Sprite open returns has direction lists of a common
\* length frames_per_direction with frames_per_direction * n_directions =
\* n_total_frames.
C4_Claim ==
    pc = "done" =>
        \E f \in 0..MaxTotalFrames :
            /\ f * returned.metadata.n_directions = returned.metadata.n_total_frames
            /\ Len(returned.frames) = returned.metadata.n_directions
            /\ \A d \in 1..Len(returned.frames) : Len(returned.frames[d]) = f

\* C5 (a frame exists only once the assertion magic == 0 has passed):
\* reading a frame header with magic 0 and mode 0 succeeds, makes a frame
\* with an Empty image (width 0, height 0, empty pixel buffer) and moves the
\* offset by the 16 header bytes only, whatever cx and cy are.
C5_Theorem ==
    [][(AtFrameHeader /\ HeaderMagic = 0 /\ HeaderMode = MODE_EMPTY) =>
          /\ pc' # "failed"
          /\ offset' = offset + 16
          /\ Len(frames_per_direction') = Len(frames_per_direction) + 1
          /\ LET f == Last(frames_per_direction')
             IN /\ f.image.kind = "Empty"
                /\ image_width(f.image) = 0
                /\ image_height(f.image) = 0
                /\ image_instance_size(f.image) = 0
                /\ standard_image_data(f.image) = Ok(<<>>)
                /\ f.metadata.frame_info_cx = I32At(source, offset + 4)
                /\ f.metadata.frame_info_cy = I32At(source, offset + 8)]_vars

\* an Empty frame with negative cx was read as the first frame
C5_Witness ==
    /\ pc \in {"frame", "direction"}
    /\ Len(frames_per_direction) = 1
    /\ Last(frames_per_direction).metadata.mode = MODE_EMPTY
    /\ Last(frames_per_direction).metadata.frame_info_cx = -1
    /\ Last(frames_per_direction).metadata.frame_info_cy = 5
    /\ offset = QQT_SPRITE_METADATA_SIZE + 16

\* the header fields, read from the raw bytes, fail one of the three checks
BadSpriteHeader ==
    \/ SubSeq(source, 1, 8) # <<81, 81, 70, 26, 68, 73, 77, 71>>
    \/ U32At(source, 8) \notin {65536, 65537}
    \/ U32At(source, 12) # 24

RejectedAsMalformed(header_size) ==
    (pc \notin {"open", "idle"} /\ Len(source) >= header_size /\ BadSpriteHeader) =>
        /\ pc = "failed"
        /\ error.exc = "AssertionError"
        /\ error.site \in MalformedSpriteSites
        /\ offset = 0
        /\ frames = <<>>
        /\ frames_per_direction = <<>>
        /\ sprite = None
        /\ returned = None

\* C6 (as claimed): a buffer whose 36-byte sprite header has a wrong magic,
\* version or frame-header size is rejected on that field before any frame
\* header is read.
C6_Claim == RejectedAsMalformed(36)

\* C6 (amended): the same for a buffer holding the 40-byte sprite header.
C6_Amended == RejectedAsMalformed(40)

\* a file with frame records was rejected on its version
C6_Witness ==
    /\ pc = "failed"
    /\ error.site = "sprite.version_id"
    /\ Len(source) >= QQT_SPRITE_METADATA_SIZE + 16

\* frames decoded so far, in the order they were read
DecodedFrames ==
    Flatten(frames)
    \o (IF pc = "frame" \/ (pc = "failed" /\ error.site \in FrameSites)
        THEN frames_per_direction ELSE <<>>)

\* frame f lies at byte offset start of the file, as its mode prescribes
FrameLaidOutAt(f, start) ==
    /\ ~BufferTooSmall(source, start, 16)
    /\ f.metadata.magic = 0
    /\ f.metadata.mode = U32At(source, start + 12)
    /\ f.metadata.mode \in KnownModes
    /\ IF f.metadata.mode = MODE_EMPTY THEN f.image = [kind |-> "Empty"]
       ELSE LET w == U32At(source, start + 16)
                h == U32At(source, start + 20)
                bpp == IF f.metadata.mode = MODE_RGB32 THEN 4 ELSE 3
                kind == IF f.metadata.mode = MODE_RGB32 THEN "RGB32"
                        ELSE IF f.metadata.mode = MODE_RGB24 THEN "RGB24"
                        ELSE "RGB565Alpha"
            IN /\ start + 28 + w * h * bpp <= Len(source)
               /\ f.image.kind = kind
               /\ f.image.metadata.width = w
               /\ f.image.metadata.height = h
               /\ f.image.original_image_data
                    = SubSeq(source, start + 28 + 1, start + 28 + w * h * bpp)
               /\ Len(f.image.original_image_data) = w * h * bpp
               /\ frame_instance_size(f) = 16 + 12 + w * h * bpp

FileOrder(header_size) ==
    metadata # None =>
        /\ \A n \in 1..Len(DecodedFrames) :
              FrameLaidOutAt(DecodedFrames[n],
                             header_size + BytesCounted(SubSeq(DecodedFrames, 1, n - 1)))
        /\ offset = header_size + BytesCounted(DecodedFrames)
        /\ \A d \in 1..Len(frames) :
              Len(frames[d]) = metadata.n_total_frames \div metadata.n_directions
        /\ Len(frames) <= metadata.n_directions

\* C10 (as claimed): frames are decoded in file order, the first frame header
\* at offset 36 and each later one where the previous frame ended; modes 3,
\* 285212672, 8, 16 read a 12-byte image header and a payload of exactly
\* width*height*3, *3, *4, *3 bytes.
C10_Claim == FileOrder(36)

\* C10 (amended): the same with the first frame header at offset 40.
C10_Amended == FileOrder(40)

\* two directions of one frame each, read with mode 3 and mode 285212672 from
\* the same image bytes, hold the same image
C10_Witness ==
    /\ pc = "done"
    /\ Len(frames) = 2
    /\ Len(frames[1]) = 1
    /\ frames[1][1].metadata.mode = MODE_RGB565
    /\ frames[2][1].metadata.mode = MODE_RGB565_ALT
    /\ image_width(frames[1][1].image) = MaxWidth
    /\ frames[1][1].image = frames[2][1].image

====
